---- MODULE Spec2Model ----
(***************************************************************************)
(* Model of caption_video.py: the captioning pipeline run by main(), the   *)
(* grammar stage correct_grammar(), the SRT serialisation save_srt() and   *)
(* format_timestamp().                                                     *)
(*                                                                         *)
(* Representation.  A Python str is a sequence of one-character strings.   *)
(* A float is named by its decimal literal with four decimals, written as  *)
(* a count of ticks of 1/10000 s: 19995 names the float 1.9995, the IEEE   *)
(* double nearest to 1.9995.  The value of a float is kept exactly, as an  *)
(* integer part and the binary digits of its fractional part; the float    *)
(* product of line 168 is rounded to 53 significant bits, ties to even.    *)
(***************************************************************************)
EXTENDS Integers, Sequences, FiniteSets, TLC

\* ------------------------------------------------------------------ bounds
\* Longest segment sequence the transcriber returns in the model.
MaxSegs == 2
\* Largest whole-hour component of the times handed to the formatter.
MaxHours == 1

\* Ticks per second of the decimal literals that name the floats.
TicksPerSecond == 10000

\* Significant bits of a Python float (IEEE 754 binary64).
Significand == 53

\* ----------------------------------------------------------------- strings
Digits == <<"0", "1", "2", "3", "4", "5", "6", "7", "8", "9">>

IsSpace(c) == c \in {" ", "\t", "\n"}

\* str(n) for a non-negative int: its decimal digits, most significant first.
RECURSIVE ToDigits(_)
ToDigits(n) ==
    IF n < 10 THEN <<Digits[n + 1]>>
    ELSE ToDigits(n \div 10) \o <<Digits[(n % 10) + 1]>>

\* The format spec {n:0wd}: decimal digits, zero-padded on the left to width w.
RECURSIVE ZeroPad(_, _)
ZeroPad(s, w) == IF Len(s) >= w THEN s ELSE ZeroPad(<<"0">> \o s, w)

FormatInt(n, w) == ZeroPad(ToDigits(n), w)

\* str.strip(): leading and trailing whitespace removed.
RECURSIVE lstrip(_)
lstrip(s) == IF s # <<>> /\ IsSpace(Head(s)) THEN lstrip(Tail(s)) ELSE s

RECURSIVE rstrip(_)
rstrip(s) ==
    IF s # <<>> /\ IsSpace(s[Len(s)]) THEN rstrip(SubSeq(s, 1, Len(s) - 1)) ELSE s

strip(s) == rstrip(lstrip(s))

\* -------------------------------------------------------- format_timestamp
\* ------------------------------------------------------------ float values
\* A float value is [int |-> its integer part, frac |-> the binary digits of
\* its fractional part, most significant first].

\* The number of binary digits of n, 0 for 0.
RECURSIVE BitLen(_)
BitLen(n) == IF n = 0 THEN 0 ELSE 1 + BitLen(n \div 2)

\* The zero digits that open a sequence of binary digits.
LeadingZeros(bits) ==
    IF \A i \in 1..Len(bits) : bits[i] = 0 THEN Len(bits)
    ELSE (CHOOSE i \in 1..Len(bits) :
              bits[i] = 1 /\ \A j \in 1..(i - 1) : bits[j] = 0) - 1

\* The fractional digits a float keeps: 53 significant bits in all.
KeptDigits(int, zeros) ==
    IF int > 0 THEN Significand - BitLen(int) ELSE zeros + Significand

\* bits + 1 in the last place: the digits and the carry out of the first place.
Increment(bits) ==
    IF \A i \in 1..Len(bits) : bits[i] = 1
    THEN [bits |-> [i \in 1..Len(bits) |-> 0], carry |-> 1]
    ELSE LET z == CHOOSE i \in 1..Len(bits) :
                      bits[i] = 0 /\ \A j \in (i + 1)..Len(bits) : bits[j] = 1
         IN  [bits |-> [i \in 1..Len(bits) |->
                           IF i < z THEN bits[i] ELSE IF i = z THEN 1 ELSE 0],
              carry |-> 0]

\* int + 0.bits rounded to keep fractional digits, to nearest, ties to even.
RoundNearestEven(int, bits, keep) ==
    IF Len(bits) <= keep THEN [int |-> int, frac |-> bits]
    ELSE LET kept == SubSeq(bits, 1, keep)
             half == bits[keep + 1] = 1
             sticky == \E i \in (keep + 2)..Len(bits) : bits[i] = 1
             odd == IF keep > 0 THEN kept[keep] = 1 ELSE int % 2 = 1
         IN  IF half /\ (sticky \/ odd)
             THEN LET r == Increment(kept)
                  IN  [int |-> int + r.carry, frac |-> r.bits]
             ELSE [int |-> int, frac |-> kept]

\* The first k binary digits of r/d after the point (0 <= r < d), and the
\* remainder left over.
RECURSIVE FractionDigits(_, _, _)
FractionDigits(r, d, k) ==
    IF k = 0 THEN [bits |-> <<>>, rem |-> r]
    ELSE IF k = 1
    THEN LET b == IF 2 * r >= d THEN 1 ELSE 0
         IN  [bits |-> <<b>>, rem |-> 2 * r - b * d]
    ELSE LET first == FractionDigits(r, d, k \div 2)
         IN  CASE first.rem >= 0 ->
                 LET rest == FractionDigits(first.rem, d, k - (k \div 2))
                 IN  [bits |-> first.bits \o rest.bits, rem |-> rest.rem]

\* The zero digits that open the binary expansion of r/d, 0 < r < d.
RECURSIVE FractionZeros(_, _)
FractionZeros(r, d) == IF 2 * r >= d THEN 0 ELSE 1 + FractionZeros(2 * r, d)

\* float("<n / 10000>"): the double nearest to the decimal literal.
FloatOf(n) ==
    LET int == n \div TicksPerSecond
        r == n % TicksPerSecond
        keep == IF int = 0 /\ r = 0 THEN 0
                ELSE KeptDigits(int, IF r = 0 THEN 0
                                     ELSE FractionZeros(r, TicksPerSecond))
        raw == FractionDigits(r, TicksPerSecond, keep + 1)
    IN  RoundNearestEven(int, Append(raw.bits, IF raw.rem > 0 THEN 1 ELSE 0), keep)

\* 0.bits * c + carry in the last place, in exact arithmetic: the low half of
\* the digits first, its integer part carried into the high half.
RECURSIVE TimesPlus(_, _, _)
TimesPlus(bits, c, carry) ==
    IF bits = <<>> THEN [int |-> carry, frac |-> <<>>]
    ELSE IF Len(bits) = 1
    THEN LET v == bits[1] * c + carry
         IN  [int |-> v \div 2, frac |-> <<v % 2>>]
    ELSE LET h == Len(bits) \div 2
             low == TimesPlus(SubSeq(bits, h + 1, Len(bits)), c, carry)
         IN  CASE low.int >= 0 ->
                 LET high == TimesPlus(SubSeq(bits, 1, h), c, low.int)
                 IN  [int |-> high.int, frac |-> high.frac \o low.frac]

ExactProduct(bits, c) == TimesPlus(bits, c, 0)

\* The float product 0.bits * c: the exact product rounded to a double.
FloatProduct(bits, c) ==
    LET p == ExactProduct(bits, c)
    IN  RoundNearestEven(p.int, p.frac, KeptDigits(p.int, LeadingZeros(p.frac)))

\* The four int(...) components of lines 165-168.  seconds // 3600,
\* seconds % 3600, seconds % 60 and seconds % 1 are exact on floats; the
\* product (seconds % 1) * 1000 is rounded.
TimestampFields(seconds) ==
    LET x == FloatOf(seconds)
    IN  [h  |-> x.int \div 3600,
         m  |-> (x.int % 3600) \div 60,
         s  |-> x.int % 60,
         ms |-> FloatProduct(x.frac, 1000).int]

\* The f-string of line 169.
format_timestamp(seconds) ==
    LET f == TimestampFields(seconds)
    IN  FormatInt(f.h, 2) \o <<":">> \o FormatInt(f.m, 2) \o <<":">>
        \o FormatInt(f.s, 2) \o <<",">> \o FormatInt(f.ms, 3)

\* ------------------------------------------------------------------- inputs
\* Segment times the transcriber may report: the floats 1.9995 and 3661.5.
SegTimes == {19995, 36615000}

\* format_timestamp over the segment times, as lines 177-178 call it.
SegStamp == [t \in SegTimes |-> format_timestamp(t)]

\* Segment texts the transcriber may report: empty, leading blank, inner and
\* trailing whitespace.
Texts == {<<>>, <<" ", "a">>, <<"a", " ", "b", "\n">>}

Segments ==
    {seg \in [start : SegTimes, end : SegTimes, text : Texts] : seg.start <= seg.end}

RECURSIVE SeqsUpTo(_, _)
SeqsUpTo(S, n) ==
    IF n = 0 THEN {<<>>}
    ELSE LET shorter == SeqsUpTo(S, n - 1)
         IN  shorter \cup {Append(q, x) : q \in {p \in shorter : Len(p) = n - 1}, x \in S}

\* What model.transcribe returns: segments ordered by non-decreasing start.
SegmentSeqs ==
    {q \in SeqsUpTo(Segments, MaxSegs) :
        \A i \in 1..(Len(q) - 1) : q[i].start <= q[i + 1].start}

\* What tool.correct(original) may return: the text as it is, or a rewrite.
CorrectOutputs(original) == {original, original \o <<".">>}

\* ------------------------------------------------------------------ save_srt
\* Mutant of SrtBlock: enumerate(segments) counting from 0.
SrtBlock_ZeroBased(i, seg) ==
    ToDigits(i - 1) \o <<"\n">>
    \o SegStamp[seg.start] \o <<" ", "-", "-", ">", " ">>
    \o SegStamp[seg.end] \o <<"\n">>
    \o strip(seg.text) \o <<"\n", "\n">>

\* One f.write of line 179: the block of segment seg with index i.
SrtBlock(i, seg) ==
    ToDigits(i) \o <<"\n">>
    \o SegStamp[seg.start] \o <<" ", "-", "-", ">", " ">>
    \o SegStamp[seg.end] \o <<"\n">>
    \o strip(seg.text) \o <<"\n", "\n">>

\* The loop of lines 176-179 from index i on: enumerate(segments, 1).
RECURSIVE SrtFrom(_, _)
SrtFrom(segments, i) ==
    IF i > Len(segments) THEN <<>>
    ELSE SrtBlock(i, segments[i]) \o SrtFrom(segments, i + 1)

SrtContent(segments) == SrtFrom(segments, 1)

\* " ".join(seg["text"].strip() for seg in segments) of line 186.
RECURSIVE JoinFrom(_, _)
JoinFrom(segments, i) ==
    IF i > Len(segments) THEN <<>>
    ELSE IF i = Len(segments) THEN strip(segments[i].text)
    ELSE strip(segments[i].text) \o <<" ">> \o JoinFrom(segments, i + 1)

TranscriptContent(segments) == JoinFrom(segments, 1)

\* -------------------------------------------------------------------- paths
name == "video"
audio_path == "output/" \o name \o "_temp.wav"
srt_path == "output/" \o name \o ".srt"
txt_path == "output/" \o name \o "_transcript.txt"
\* Lines 282-283.
video_out(soft) ==
    LET suffix == IF soft THEN "_soft" ELSE ""
    IN  "output/" \o name \o "_captioned" \o suffix \o ".mp4"

\* A file system fs maps the paths that exist to their contents.
WriteFile(fs, path, content) ==
    [p \in (DOMAIN fs) \cup {path} |-> IF p = path THEN content ELSE fs[p]]

Unlink(fs, path) == [p \in (DOMAIN fs) \ {path} |-> fs[p]]

NoFiles == [p \in {} |-> <<>>]

\* ------------------------------------------------------------ stage functions
\* Each returns what the call does for one outcome of the external tool:
\* raised = an exception leaves the function.

\* Mutant of extract_audio: subprocess.run without check=True.
extract_audio_NoCheck(fs, rc) ==
    IF rc = 0 THEN [raised |-> FALSE, fs |-> WriteFile(fs, audio_path, <<"pcm_s16le">>)]
    ELSE [raised |-> FALSE, fs |-> fs]

\* subprocess.run(cmd, check=True): CalledProcessError on a non-zero exit.
extract_audio(fs, rc) ==
    IF rc = 0 THEN [raised |-> FALSE, fs |-> WriteFile(fs, audio_path, <<"pcm_s16le">>)]
    ELSE [raised |-> TRUE, fs |-> fs]

\* whisper.load_model / model.transcribe raise, or the result is returned.
transcribe_audio(ok, segs) ==
    IF ok THEN [raised |-> FALSE, segments |-> segs]
    ELSE [raised |-> TRUE, segments |-> <<>>]

\* Mutant of CorrectedSegment: the end taken from the segment's start.
CorrectedSegment_EndFromStart(seg, fixed) ==
    [start |-> seg.start, end |-> seg.start, text |-> fixed]

\* Line 155.
CorrectedSegment(seg, fixed) ==
    [start |-> seg.start, end |-> seg.end, text |-> fixed]

\* The loop of lines 150-155 when every tool.correct call returns.
AssembleCorrected(segments, fixes) ==
    [i \in 1..Len(segments) |-> CorrectedSegment(segments[i], fixes[i])]

\* except ImportError: return segments.
OnImportError(segments) ==
    [raised |-> FALSE, segments |-> segments, constructed |-> 0,
     constructError |-> FALSE, raisedAt |-> 0]

\* Mutant of OnConstructError: the constructor's exception is not caught.
OnConstructError_Uncaught(segments) ==
    [raised |-> TRUE, segments |-> segments, constructed |-> 1,
     constructError |-> TRUE, raisedAt |-> 0]

\* except Exception around the constructor: return segments.
OnConstructError(segments) ==
    [raised |-> FALSE, segments |-> segments, constructed |-> 1,
     constructError |-> TRUE, raisedAt |-> 0]

\* tool.correct raises on segment k: no handler encloses line 152.
OnCorrectError(segments, k) ==
    [raised |-> TRUE, segments |-> segments, constructed |-> 1,
     constructError |-> FALSE, raisedAt |-> k]

\* Every outcome of correct_grammar(segments, lang_code); importable says
\* whether `import language_tool_python` succeeds in this process.
correct_grammar(segments, importable) ==
    IF ~importable THEN {OnImportError(segments)}
    ELSE {OnConstructError(segments)}
         \cup {OnCorrectError(segments, k) : k \in 1..Len(segments)}
         \cup {[raised |-> FALSE, segments |-> AssembleCorrected(segments, fixes),
                constructed |-> 1, constructError |-> FALSE, raisedAt |-> 0] :
                  fixes \in {f \in [1..Len(segments) ->
                                      UNION {CorrectOutputs(strip(t)) : t \in Texts}] :
                               \A i \in 1..Len(segments) :
                                   f[i] \in CorrectOutputs(strip(segments[i].text))}}

save_srt(fs, segments, ok) ==
    IF ok THEN [raised |-> FALSE, fs |-> WriteFile(fs, srt_path, SrtContent(segments))]
    ELSE [raised |-> TRUE, fs |-> fs]

save_transcript(fs, segments, ok) ==
    IF ok THEN [raised |-> FALSE, fs |-> WriteFile(fs, txt_path, TranscriptContent(segments))]
    ELSE [raised |-> TRUE, fs |-> fs]

\* Mutant of burn_subtitles: the intermediate audio removed when muxing fails.
burn_subtitles_CleanupOnError(fs, output_path, rc) ==
    IF rc = 0 THEN [raised |-> FALSE, fs |-> WriteFile(fs, output_path, <<"burned">>)]
    ELSE [raised |-> TRUE, fs |-> Unlink(fs, audio_path)]

\* ffmpeg's burn-in invocation, lines 198-203.
burn_subtitles(fs, output_path, rc) ==
    IF rc = 0 THEN [raised |-> FALSE, fs |-> WriteFile(fs, output_path, <<"burned">>)]
    ELSE [raised |-> TRUE, fs |-> fs]

embed_subtitles(fs, output_path, rc) ==
    IF rc = 0 THEN [raised |-> FALSE, fs |-> WriteFile(fs, output_path, <<"mov_text">>)]
    ELSE [raised |-> TRUE, fs |-> fs]

\* Mutant of GrammarEnabled: --no-grammar ignored.
GrammarEnabled_IgnoresFlag(has, no_grammar) == has

\* Line 291.
GrammarEnabled(has, no_grammar) == has /\ ~no_grammar

\* Mutant of UseEmbed: the two muxing branches swapped.
UseEmbed_Swapped(soft) == ~soft

\* Line 297.
UseEmbed(soft) == soft

\* Mutant of VideoValid: the existence check of line 264 left out.
VideoValid_NoExistsCheck(given, exists) == given

\* Lines 259 and 264: neither sys.exit(1) is taken.
VideoValid(given, exists) == given /\ exists

\* --------------------------------------------------------------------- state
VARIABLES
    pc,           \* position of main(): the next step to run, or "exited"
    exit_status,  \* the process's exit status once pc = "exited", -1 before
    env,          \* what is installed and whether the video file exists
    args,         \* the parsed command line
    has_grammar,  \* main's has_grammar
    transcribed,  \* result["segments"] as the transcriber returned it
    segments,     \* main's segments
    fs,           \* the files under output/
    calls,        \* history: the operations invoked, in order
    toolFailed,   \* history: the operation whose external call failed, or "none"
    constructed,  \* history: LanguageTool constructions attempted
    constructError, \* history: the LanguageTool constructor raised
    raisedAt,     \* history: index of the segment tool.correct raised on, or 0
    secondsArg,   \* formatter harness: the input
    stamp         \* formatter harness: format_timestamp(secondsArg), <<>> before

vars == <<pc, exit_status, env, args, has_grammar, transcribed, segments, fs,
          calls, toolFailed, constructed, constructError, raisedAt, secondsArg,
          stamp>>

history == <<toolFailed, constructed, constructError, raisedAt>>
harness == <<secondsArg, stamp>>

Init ==
    /\ pc = "check_dependencies"
    /\ exit_status = -1
    /\ env \in [ffmpeg : BOOLEAN, whisper : BOOLEAN, language_tool : BOOLEAN,
                video_exists : BOOLEAN]
    /\ args \in [video : BOOLEAN, soft : BOOLEAN, no_grammar : BOOLEAN, check : BOOLEAN]
    /\ has_grammar = FALSE
    /\ transcribed = <<>>
    /\ segments = <<>>
    /\ fs = NoFiles
    /\ calls = <<>>
    /\ toolFailed = "none"
    /\ constructed = 0
    /\ constructError = FALSE
    /\ raisedAt = 0
    /\ secondsArg = 0
    /\ stamp = <<>>

\* ------------------------------------------------------------------- actions
\* check_dependencies(), lines 42-95: sys.exit(1) when a required dependency
\* is missing, else returns len(warnings) == 0.
CheckDependencies ==
    /\ pc = "check_dependencies"
    /\ calls' = Append(calls, "check_dependencies")
    /\ IF env.ffmpeg /\ env.whisper
       THEN /\ has_grammar' = env.language_tool
            /\ pc' = "check_flag"
            /\ exit_status' = exit_status
       ELSE /\ has_grammar' = has_grammar
            /\ pc' = "exited"
            /\ exit_status' = 1
    /\ UNCHANGED <<env, args, transcribed, segments, fs, history, harness>>

\* Lines 254-256.
CheckOnly ==
    /\ pc = "check_flag"
    /\ IF args.check
       THEN pc' = "exited" /\ exit_status' = 0
       ELSE pc' = "validate" /\ exit_status' = exit_status
    /\ UNCHANGED <<env, args, has_grammar, transcribed, segments, fs, calls,
                   history, harness>>

\* Lines 258-283: the two sys.exit(1), else the output folder and the paths.
ValidateVideo ==
    /\ pc = "validate"
    /\ calls' = Append(calls, "validate")
    /\ IF VideoValid(args.video, env.video_exists)
       THEN pc' = "extract_audio" /\ exit_status' = exit_status
       ELSE pc' = "exited" /\ exit_status' = 1
    /\ UNCHANGED <<env, args, has_grammar, transcribed, segments, fs, history, harness>>

\* Line 286.
ExtractAudio ==
    /\ pc = "extract_audio"
    /\ calls' = Append(calls, "extract_audio")
    /\ \E rc \in {0, 1} :
         LET r == extract_audio(fs, rc)
         IN  /\ toolFailed' = IF rc = 0 THEN toolFailed ELSE "extract_audio"
             /\ fs' = r.fs
             /\ IF r.raised
                THEN pc' = "exited" /\ exit_status' = 1
                ELSE pc' = "transcribe_audio" /\ exit_status' = exit_status
    /\ UNCHANGED <<env, args, has_grammar, transcribed, segments, constructed,
                   constructError, raisedAt, harness>>

\* Lines 287-289.
TranscribeAudio ==
    /\ pc = "transcribe_audio"
    /\ calls' = Append(calls, "transcribe_audio")
    /\ \E ok \in BOOLEAN, segs \in SegmentSeqs :
         LET r == transcribe_audio(ok, segs)
         IN  /\ toolFailed' = IF ok THEN toolFailed ELSE "transcribe_audio"
             /\ IF r.raised
                THEN /\ pc' = "exited" /\ exit_status' = 1
                     /\ UNCHANGED <<transcribed, segments>>
                ELSE /\ pc' = "correct_grammar" /\ exit_status' = exit_status
                     /\ transcribed' = r.segments
                     /\ segments' = r.segments
    /\ UNCHANGED <<env, args, has_grammar, fs, constructed, constructError, raisedAt,
                   harness>>

\* Lines 291-292.
GrammarStage ==
    /\ pc = "correct_grammar"
    /\ IF GrammarEnabled(has_grammar, args.no_grammar)
       THEN /\ calls' = Append(calls, "correct_grammar")
            /\ \E r \in correct_grammar(segments, env.language_tool) :
                 /\ constructed' = constructed + r.constructed
                 /\ constructError' = r.constructError
                 /\ raisedAt' = r.raisedAt
                 /\ IF r.raised
                    THEN /\ pc' = "exited" /\ exit_status' = 1
                         /\ segments' = segments
                    ELSE /\ pc' = "save_srt" /\ exit_status' = exit_status
                         /\ segments' = r.segments
       ELSE /\ pc' = "save_srt"
            /\ UNCHANGED <<exit_status, segments, calls, constructed, constructError,
                           raisedAt>>
    /\ UNCHANGED <<env, args, has_grammar, transcribed, fs, toolFailed, harness>>

\* Line 294.
SaveSrt ==
    /\ pc = "save_srt"
    /\ calls' = Append(calls, "save_srt")
    /\ \E ok \in BOOLEAN :
         LET r == save_srt(fs, segments, ok)
         IN  /\ toolFailed' = IF ok THEN toolFailed ELSE "save_srt"
             /\ fs' = r.fs
             /\ IF r.raised
                THEN pc' = "exited" /\ exit_status' = 1
                ELSE pc' = "save_transcript" /\ exit_status' = exit_status
    /\ UNCHANGED <<env, args, has_grammar, transcribed, segments, constructed,
                   constructError, raisedAt, harness>>

\* Line 295.
SaveTranscript ==
    /\ pc = "save_transcript"
    /\ calls' = Append(calls, "save_transcript")
    /\ \E ok \in BOOLEAN :
         LET r == save_transcript(fs, segments, ok)
         IN  /\ toolFailed' = IF ok THEN toolFailed ELSE "save_transcript"
             /\ fs' = r.fs
             /\ IF r.raised
                THEN pc' = "exited" /\ exit_status' = 1
                ELSE pc' = "mux" /\ exit_status' = exit_status
    /\ UNCHANGED <<env, args, has_grammar, transcribed, segments, constructed,
                   constructError, raisedAt, harness>>

\* Lines 297-300.
Mux ==
    /\ pc = "mux"
    /\ \E rc \in {0, 1} :
         LET embed == UseEmbed(args.soft)
             op == IF embed THEN "embed_subtitles" ELSE "burn_subtitles"
             r  == IF embed THEN embed_subtitles(fs, video_out(args.soft), rc)
                   ELSE burn_subtitles(fs, video_out(args.soft), rc)
         IN  /\ calls' = Append(calls, op)
             /\ toolFailed' = IF rc = 0 THEN toolFailed ELSE op
             /\ fs' = r.fs
             /\ IF r.raised
                THEN pc' = "exited" /\ exit_status' = 1
                ELSE pc' = "cleanup" /\ exit_status' = exit_status
    /\ UNCHANGED <<env, args, has_grammar, transcribed, segments, constructed,
                   constructError, raisedAt, harness>>

\* Lines 302-313: audio_path.unlink(), the summary, and main returns.
Cleanup ==
    /\ pc = "cleanup"
    /\ calls' = Append(calls, "unlink")
    /\ fs' = Unlink(fs, audio_path)
    /\ pc' = "exited"
    /\ exit_status' = 0
    /\ UNCHANGED <<env, args, has_grammar, transcribed, segments, history, harness>>

Next ==
    \/ CheckDependencies
    \/ CheckOnly
    \/ ValidateVideo
    \/ ExtractAudio
    \/ TranscribeAudio
    \/ GrammarStage
    \/ SaveSrt
    \/ SaveTranscript
    \/ Mux
    \/ Cleanup

Spec == Init /\ [][Next]_vars

\* -------------------------------------------------------- formatter harness
\* Sub-second parts, in ticks, around the millisecond and second boundaries.
FracSamples == {0, 1, 9, 10, 90, 4999, 5000, 9989, 9990, 9995, 9999}

\* Non-negative times handed to format_timestamp, in ticks.
FmtTimes ==
    {((h * 3600 + m * 60 + s) * TicksPerSecond) + f :
        h \in 0..MaxHours, m \in {0, 1, 59}, s \in {0, 1, 59}, f \in FracSamples}

InitFmt ==
    /\ pc = "format_timestamp"
    /\ exit_status = -1
    /\ env = [ffmpeg |-> TRUE, whisper |-> TRUE, language_tool |-> TRUE,
              video_exists |-> TRUE]
    /\ args = [video |-> TRUE, soft |-> FALSE, no_grammar |-> FALSE, check |-> FALSE]
    /\ has_grammar = FALSE
    /\ transcribed = <<>>
    /\ segments = <<>>
    /\ fs = NoFiles
    /\ calls = <<>>
    /\ toolFailed = "none"
    /\ constructed = 0
    /\ constructError = FALSE
    /\ raisedAt = 0
    /\ secondsArg \in FmtTimes
    /\ stamp = <<>>

\* One call of format_timestamp(seconds).
FormatTimestamp ==
    /\ pc = "format_timestamp"
    /\ stamp' = format_timestamp(secondsArg)
    /\ pc' = "formatted"
    /\ UNCHANGED <<exit_status, env, args, has_grammar, transcribed, segments, fs,
                   calls, history, secondsArg>>

NextFmt == FormatTimestamp

SpecFmt == InitFmt /\ [][NextFmt]_vars

\* ------------------------------------------------------- reading text back
\* The number a sequence of decimal digits denotes.
RECURSIVE ParseNat(_)
ParseNat(d) ==
    IF d = <<>> THEN 0
    ELSE ParseNat(SubSeq(d, 1, Len(d) - 1)) * 10
         + (CHOOSE v \in 0..9 : Digits[v + 1] = d[Len(d)])

IsDigits(d) == d # <<>> /\ \A i \in 1..Len(d) : \E v \in 1..10 : Digits[v] = d[i]

\* text.split("\n"): the lines of a text, the last one being what follows the
\* last newline.
RECURSIVE SplitLines(_)
SplitLines(text) ==
    IF \A i \in 1..Len(text) : text[i] # "\n" THEN <<text>>
    ELSE LET i == CHOOSE j \in 1..Len(text) :
                      text[j] = "\n" /\ \A k \in 1..(j - 1) : text[k] # "\n"
         IN  <<SubSeq(text, 1, i - 1)>> \o SplitLines(SubSeq(text, i + 1, Len(text)))

InCalls(op) == \E i \in 1..Len(calls) : calls[i] = op

Count(op) == Cardinality({i \in 1..Len(calls) : calls[i] = op})

\* ------------------------------------------------------------------- claims

\* The fields read back from a formatted timestamp HH:MM:SS,mmm.
StampFields ==
    [h  |-> ParseNat(SubSeq(stamp, 1, 2)),
     m  |-> ParseNat(SubSeq(stamp, 4, 5)),
     s  |-> ParseNat(SubSeq(stamp, 7, 8)),
     ms |-> ParseNat(SubSeq(stamp, 10, 12))]

\* The output is two, two, two and three decimal digits separated by ":",
\* ":" and ",", with minutes and seconds in 0..59 and milliseconds in 0..999.
StampWellFormed ==
    /\ Len(stamp) = 12
    /\ stamp[3] = ":" /\ stamp[6] = ":" /\ stamp[9] = ","
    /\ IsDigits(SubSeq(stamp, 1, 2)) /\ IsDigits(SubSeq(stamp, 4, 5))
    /\ IsDigits(SubSeq(stamp, 7, 8)) /\ IsDigits(SubSeq(stamp, 10, 12))
    /\ StampFields.m \in 0..59
    /\ StampFields.s \in 0..59
    /\ StampFields.ms \in 0..999

\* format(0.0), format(3661.5) and format(1.9995) as the specification lists them.
StampExamples ==
    /\ secondsArg = 0 =>
         stamp = <<"0", "0", ":", "0", "0", ":", "0", "0", ",", "0", "0", "0">>
    /\ secondsArg = 36615000 =>
         stamp = <<"0", "1", ":", "0", "1", ":", "0", "1", ",", "5", "0", "0">>
    /\ secondsArg = 19995 =>
         stamp = <<"0", "0", ":", "0", "0", ":", "0", "1", ",", "9", "9", "9">>

\* C7 (as claimed): for every non-negative time t the output is HH:MM:SS,mmm,
\* zero-padded, minutes and seconds in 0..59, milliseconds in 0..999, where
\* the whole seconds are floor(t) and the milliseconds are
\* floor(1000 * fractional part of t), t being the value of the float passed
\* in; and the three listed examples.
C7_TruncatingTimestamp ==
    pc = "formatted" =>
        /\ StampWellFormed
        /\ StampExamples
        /\ LET t == FloatOf(secondsArg)
               f == StampFields
           IN  /\ f.h * 3600 + f.m * 60 + f.s = t.int
               /\ f.ms = ExactProduct(t.frac, 1000).int

\* C7 read with t the decimal literal instead of the float it denotes: the
\* milliseconds are floor(1000 * fractional part of seconds / 10000).
C7_TruncatingDecimal ==
    pc = "formatted" =>
        LET f == StampFields
            whole == f.h * 3600 + f.m * 60 + f.s
            frac == secondsArg - whole * TicksPerSecond
        IN  /\ frac \in 0..(TicksPerSecond - 1)
            /\ f.ms * TicksPerSecond <= frac * 1000
            /\ frac * 1000 < (f.ms + 1) * TicksPerSecond

\* What of C7 the formatter does deliver: the layout, the field ranges, the
\* whole seconds, the three examples, and milliseconds that are the
\* truncation or one more.
C7_WithinOneMillisecond ==
    pc = "formatted" =>
        /\ StampWellFormed
        /\ StampExamples
        /\ LET t == FloatOf(secondsArg)
               f == StampFields
           IN  /\ f.h * 3600 + f.m * 60 + f.s = t.int
               /\ f.ms - ExactProduct(t.frac, 1000).int \in {0, 1}

\* C6: the subtitle file of a sequence of n segments has exactly n blocks;
\* block k is the line k, the line "<start> --> <end>" of the k-th segment's
\* formatted times, the line of its trimmed text, and a blank line.
C6_SrtBlocks ==
    srt_path \in DOMAIN fs =>
        LET lines == SplitLines(fs[srt_path])
            n == Len(segments)
        IN  /\ Len(lines) = 4 * n + 1
            /\ lines[4 * n + 1] = <<>>
            /\ \A k \in 1..n :
                 /\ IsDigits(lines[4 * k - 3])
                 /\ ParseNat(lines[4 * k - 3]) = k
                 /\ lines[4 * k - 2] =
                      SegStamp[segments[k].start]
                      \o <<" ", "-", "-", ">", " ">>
                      \o SegStamp[segments[k].end]
                 /\ lines[4 * k - 1] = strip(segments[k].text)
                 /\ lines[4 * k] = <<>>

\* C6 witness: a subtitle file of two segments, the first with empty text and
\* zero duration.
C6_Witness ==
    /\ srt_path \in DOMAIN fs
    /\ Len(segments) = 2
    /\ strip(segments[1].text) = <<>>
    /\ segments[1].start = segments[1].end
    /\ strip(segments[2].text) # <<>>

\* The operations the pipeline section of main() runs, lines 286-303.
Stages ==
    {"extract_audio", "transcribe_audio", "correct_grammar", "save_srt",
     "save_transcript", "embed_subtitles", "burn_subtitles", "unlink"}

Captioned == {p \in DOMAIN fs : fs[p] \in {<<"burned">>, <<"mov_text">>}}

\* C1 (as claimed): when tool.correct raises on a segment, the grammar stage
\* yields the original segments and the run does not end before the subtitle
\* file is written.
C1_CorrectErrorDegrades ==
    raisedAt > 0 =>
        /\ segments = transcribed
        /\ pc = "exited" => InCalls("save_srt")

\* The grammar stage was entered and returned to main().
GrammarReturned == InCalls("correct_grammar") /\ raisedAt = 0

\* C2: whenever correct_grammar returns, its result has the length of its
\* input and, position by position, the input's start and end.
C2_TimingPreserved ==
    GrammarReturned =>
        /\ Len(segments) = Len(transcribed)
        /\ \A i \in 1..Len(transcribed) :
             /\ segments[i].start = transcribed[i].start
             /\ segments[i].end = transcribed[i].end

\* C2 witness: two segments were corrected, the second one's text rewritten
\* and its end later than its start.
C2_Witness ==
    /\ GrammarReturned
    /\ Len(segments) = 2
    /\ segments[2].text = strip(transcribed[2].text) \o <<".">>
    /\ transcribed[2].start < transcribed[2].end

\* The grammar service is unavailable: not importable, or its constructor raised.
Unavailable == ~env.language_tool \/ constructError

\* C3: with the grammar service unavailable the writer gets the transcriber's
\* segments, and a run in which no stage's external call fails ends with
\* status 0 and the subtitle file, the transcript and the captioned video.
C3_UnavailablePassthrough ==
    Unavailable =>
        /\ raisedAt = 0
        /\ segments = transcribed
        /\ srt_path \in DOMAIN fs => fs[srt_path] = SrtContent(transcribed)
        /\ txt_path \in DOMAIN fs => fs[txt_path] = TranscriptContent(transcribed)
        /\ (pc = "exited" /\ InCalls("extract_audio") /\ toolFailed = "none") =>
             /\ exit_status = 0
             /\ {srt_path, txt_path} \subseteq DOMAIN fs
             /\ Cardinality(Captioned) = 1

\* C3 witness: the constructor raised and the run of two segments ended with
\* status 0.
C3_Witness ==
    /\ constructError
    /\ pc = "exited"
    /\ exit_status = 0
    /\ Len(transcribed) = 2

\* A stage after extraction failed.
LaterStageFailed ==
    \/ toolFailed \in {"transcribe_audio", "save_srt", "save_transcript",
                       "embed_subtitles", "burn_subtitles"}
    \/ raisedAt > 0

\* Transcription, the grammar stage if it ran, both writes and muxing have
\* returned normally.
LaterStagesSucceeded ==
    /\ toolFailed = "none"
    /\ raisedAt = 0
    /\ InCalls("transcribe_audio")
    /\ InCalls("save_srt")
    /\ InCalls("save_transcript")
    /\ InCalls("embed_subtitles") \/ InCalls("burn_subtitles")
    /\ {srt_path, txt_path} \subseteq DOMAIN fs
    /\ Cardinality(Captioned) = 1

C4_Terminal ==
    pc = "exited" =>
        /\ LaterStageFailed => audio_path \in DOMAIN fs
        /\ exit_status = 0 => audio_path \notin DOMAIN fs

C4_DeleteStep ==
    (audio_path \in DOMAIN fs /\ audio_path \notin DOMAIN fs') => LaterStagesSucceeded

\* C4: the step that deletes the intermediate audio file is taken only when
\* every later stage has succeeded; a run that ended after a later stage
\* failed still has the file, a run that ended with status 0 does not.
C4_AudioLifetime == [] C4_Terminal /\ [][C4_DeleteStep]_vars

\* C4 witness: a run ended with status 0 after unlinking the audio file.
C4_Witness ==
    /\ pc = "exited"
    /\ exit_status = 0
    /\ InCalls("unlink")
    /\ audio_path \notin DOMAIN fs

FatalStages ==
    {"extract_audio", "transcribe_audio", "embed_subtitles", "burn_subtitles"}

\* C5: once extraction, transcription or muxing has failed the run is over
\* with status 1, the failed stage is the last operation invoked and was
\* invoked once, and the files of the earlier stages are on disk.
C5_AbortOnStageFailure ==
    toolFailed \in FatalStages =>
        /\ pc = "exited"
        /\ exit_status = 1
        /\ Len(calls) > 0
        /\ calls[Len(calls)] = toolFailed
        /\ Count(toolFailed) = 1
        /\ toolFailed = "extract_audio" => fs = NoFiles
        /\ toolFailed = "transcribe_audio" => DOMAIN fs = {audio_path}
        /\ toolFailed \in {"embed_subtitles", "burn_subtitles"} =>
             /\ DOMAIN fs = {audio_path, srt_path, txt_path}
             /\ fs[srt_path] = SrtContent(segments)
             /\ fs[txt_path] = TranscriptContent(segments)

\* C5 witness: the burn-in failed after both files were written.
C5_Witness ==
    /\ toolFailed = "burn_subtitles"
    /\ pc = "exited"
    /\ exit_status = 1
    /\ srt_path \in DOMAIN fs

BadDeps == ~env.ffmpeg \/ ~env.whisper
NoVideoArg == ~args.video
MissingFile == args.video /\ ~env.video_exists

NothingStarted ==
    /\ \A i \in 1..Len(calls) : calls[i] \notin Stages
    /\ pc \in {"check_dependencies", "check_flag", "validate", "exited"}
    /\ fs = NoFiles

\* The dependency check is the first operation, the input validation the
\* second, and every stage comes after both.
StartupOrder ==
    /\ Len(calls) >= 1 => calls[1] = "check_dependencies"
    /\ Len(calls) >= 2 => calls[2] = "validate"
    /\ \A i \in 1..Len(calls) : calls[i] \in Stages => i >= 3

C9_MuxExclusive ==
    LET nE == Count("embed_subtitles")
        nB == Count("burn_subtitles")
    IN  /\ nE + nB <= 1
        /\ (pc = "cleanup" \/ InCalls("unlink")) => nE + nB = 1
        /\ nE + nB = 1 => (nE = 1 <=> args.soft)
        /\ Captioned \subseteq
             {"output/video_captioned_soft.mp4", "output/video_captioned.mp4"}
        /\ "output/video_captioned_soft.mp4" \in DOMAIN fs => nE = 1
        /\ "output/video_captioned.mp4" \in DOMAIN fs => nB = 1
        /\ (nE = 1 /\ toolFailed = "none") =>
             "output/video_captioned_soft.mp4" \in DOMAIN fs
        /\ (nB = 1 /\ toolFailed = "none") =>
             "output/video_captioned.mp4" \in DOMAIN fs

\* C9 witness: embed_subtitles ran once and wrote the _soft file.
C9_Witness ==
    /\ Count("embed_subtitles") = 1
    /\ "output/video_captioned_soft.mp4" \in DOMAIN fs

\* C10: LanguageTool is constructed at most once, and only when --no-grammar
\* was not given and the startup probe could import the module; under
\* --no-grammar it is never constructed and both files hold the transcriber's
\* segments.
C10_ConstructionGuarded ==
    /\ constructed <= 1
    /\ constructed >= 1 => (~args.no_grammar /\ has_grammar /\ env.language_tool)
    /\ args.no_grammar =>
         /\ constructed = 0
         /\ ~InCalls("correct_grammar")
         /\ segments = transcribed
         /\ srt_path \in DOMAIN fs => fs[srt_path] = SrtContent(transcribed)
         /\ txt_path \in DOMAIN fs => fs[txt_path] = TranscriptContent(transcribed)

\* C10 witness: --no-grammar with the module importable, and the transcript
\* of two segments written.
C10_Witness ==
    /\ args.no_grammar
    /\ has_grammar
    /\ txt_path \in DOMAIN fs
    /\ Len(transcribed) = 2

====
